---------------------------- MODULE Spec2Model ----------------------------
(***************************************************************************)
(* A model of the Snipe-IT MCP server (src/server.py): seven tools, each a *)
(* dispatcher that builds a client, enters it as a context manager, runs   *)
(* local validation and collaborator calls, and maps every fault to a      *)
(* response envelope.                                                      *)
(*                                                                         *)
(* Conventions of the model                                                *)
(*  - An optional value (Python `T | None`) is a sequence of length at     *)
(*    most one: <<>> is None, <<v>> is the value v.                        *)
(*  - A Python string built by an f-string is the sequence of its pieces   *)
(*    (a "text"): f"Asset not found: {e}" is <<"Asset not found: ", msg>>. *)
(*    Its first piece is what the string begins with.                      *)
(*  - A tool's body is the operator of the same name: a function of the    *)
(*    arguments and of the values the collaborator has returned so far     *)
(*    (rets), giving the next thing the code does: a collaborator call or  *)
(*    a return.  The actions Invoke, GetClient, Enter, Body and Exit run   *)
(*    it, one collaborator interaction per step.                           *)
(*  - The snipeit library is not part of the repository.  Its exception    *)
(*    classes are taken to form the hierarchy the order of the except      *)
(*    clauses presumes (the three specific errors derive from              *)
(*    SnipeITException), and its __exit__ is taken not to suppress         *)
(*    exceptions.                                                          *)
(***************************************************************************)
EXTENDS Integers, Sequences, FiniteSets, TLC

VARIABLES
    cfg,        \* the process configuration: [url, token], each optional
    active,     \* the invocation slots that may run
    pc,         \* per slot: idle | construct | enter | body | exit | done | raised
    inv,        \* per slot: the invocation [tool, args]
    client,     \* per slot: the SnipeIT object its local `client` refers to
    conn,       \* per slot: the client object: none | created | entered | exited
    calls,      \* per slot: the collaborator operations invoked, in order
    rets,       \* per slot: the values those operations returned, in order
    resp,       \* per slot: how each collaborator interaction ended, in order
    exc,        \* per slot: the exception in flight inside the with block
    retval,     \* per slot: the value of a `return` not yet past __exit__
    envelope    \* per slot: the value the tool returned to its caller

vars == <<cfg, active, pc, inv, client, conn, calls, rets, resp, exc, retval,
          envelope>>

-----------------------------------------------------------------------------
(* Bounds of the model and the input domains drawn from them.              *)

MaxId == 1
MaxLabels == 2

DefaultLimit == 50
DefaultOffset == 0

Procs == {"p1", "p2"}

Ids == 0..MaxId
Strs == {"", "s"}
OptId == {<<>>} \cup {<<i>> : i \in Ids}
OptStr == {<<>>} \cup {<<s>> : s \in Strs}
OptBool == {<<>>, <<FALSE>>, <<TRUE>>}
OptOrder == {<<>>, <<"asc">>, <<"desc">>}

None == <<>>
Some(v) == <<v>>

RECURSIVE SeqsUpTo(_, _)
SeqsUpTo(S, n) ==
    IF n = 0 THEN {<<>>}
    ELSE LET shorter == SeqsUpTo(S, n - 1)
         IN  shorter \cup {Append(q, x) : q \in shorter, x \in S}

Range(f) == {f[x] : x \in DOMAIN f}

-----------------------------------------------------------------------------
(* Python truthiness, as `if x:` / `not x` evaluate it on each type.       *)

\* Differs from TruthyInt in accepting 0: the test `x is not None`.
IntIsNotNone(o) == o # None

TruthyInt(o) == o # None /\ o[1] # 0
\* Differs from TruthyStr in accepting "": the test `x is not None`.
StrIsNotNone(o) == o # None

TruthyStr(o) == o # None /\ o[1] # ""
TruthyList(o) == o # None /\ Len(o[1]) > 0
\* A pydantic model instance defines neither __bool__ nor __len__: only
\* None is falsy.
TruthyModel(o) == o # None
IsNotNone(o) == o # None

-----------------------------------------------------------------------------
(* Pydantic input models (a representative subset of each model's fields,  *)
(* one per field type; the code treats every field of a model alike).      *)

AssetData ==
    [status_id : OptId, model_id : OptId, name : OptStr, requestable : OptBool]

ConsumableData ==
    [name : OptStr, qty : OptId, category_id : OptId, notes : OptStr]

CheckoutData ==
    [checkout_to_type : {"user", "asset", "location"}, assigned_to_id : Ids,
     expected_checkin : OptStr, checkout_at : OptStr, note : OptStr,
     name : OptStr]

CheckinData == [note : OptStr, location_id : OptId]

AuditData == [location_id : OptId, note : OptStr, next_audit_date : OptStr]

MaintenanceData ==
    [asset_improvement : {"Repair"}, supplier_id : Ids, title : {"t"},
     cost : OptId, start_date : OptStr, completion_date : OptStr,
     notes : OptStr]

Opt(S) == {None} \cup {Some(x) : x \in S}

\* asset_data.model_dump(): the mapping of every field to its value.
ModelDump(d) == d


\* A slip: the comprehension without its `if v is not None`.
AllItems(d) == d

\* Differs from NonNoneItems in depending on the other invocations: once
\* one of them has returned, the None values are no longer left out.
ItemsAfterFirstReturn(d) ==
    IF \E p \in Procs : pc[p] = "done" THEN d
    ELSE [k \in {k \in DOMAIN d : d[k] # None} |-> d[k]]

\* {k: v for k, v in d.items() if v is not None}.  A keyword mapping
\* (kwargs) maps each name to its Python value, kept as an optional.
NonNoneItems(d) ==
    LET keys == {k \in DOMAIN d : IsNotNone(d[k])}
    IN  [k \in keys |-> d[k]]

-----------------------------------------------------------------------------
(* Exceptions.  A fault is [cls, msg]; str(e) is msg.                      *)

ExcClasses ==
    {"SnipeITNotFoundError", "SnipeITAuthenticationError",
     "SnipeITValidationError", "SnipeITException", "Exception"}

\* The classes a collaborator fault may have: the three specific errors,
\* any other SnipeITException, any other Exception.
Faults == {[cls |-> c, msg |-> "detail"] : c \in ExcClasses}

\* isinstance(e, cls) for an exception whose class is c.
IsInstance(c, cls) ==
    \/ cls = c
    \/ cls = "Exception"
    \/ cls = "SnipeITException"
         /\ c \in {"SnipeITNotFoundError", "SnipeITAuthenticationError",
                   "SnipeITValidationError"}

\* What get_snipeit_client raises when the configuration is missing.
ConfigFault ==
    [cls |-> "SnipeITException",
     msg |-> "Snipe-IT credentials not configured. Please set SNIPEIT_URL and SNIPEIT_TOKEN environment variables."]


\* A slip: `and` for `or` in the test of get_snipeit_client.
ConfiguredEither(c) == TruthyStr(c.url) \/ TruthyStr(c.token)

\* `not SNIPEIT_URL or not SNIPEIT_TOKEN` is false.
Configured(c) == TruthyStr(c.url) /\ TruthyStr(c.token)

Tools ==
    {"manage_assets", "asset_operations", "asset_files", "asset_labels",
     "asset_maintenance", "asset_licenses", "manage_consumables"}

\* A slip: manage_assets and manage_consumables without their closing
\* `except Exception` clause.
FullHandlersNoCatchAll(notFoundLabel) ==
    << [cls |-> "SnipeITNotFoundError",       label |-> notFoundLabel],
       [cls |-> "SnipeITAuthenticationError", label |-> "Authentication failed: "],
       [cls |-> "SnipeITValidationError",     label |-> "Validation error: "],
       [cls |-> "SnipeITException",           label |-> "Snipe-IT error: "] >>

FullHandlers(notFoundLabel) ==
    << [cls |-> "SnipeITNotFoundError",       label |-> notFoundLabel],
       [cls |-> "SnipeITAuthenticationError", label |-> "Authentication failed: "],
       [cls |-> "SnipeITValidationError",     label |-> "Validation error: "],
       [cls |-> "SnipeITException",           label |-> "Snipe-IT error: "],
       [cls |-> "Exception",                  label |-> "Unexpected error: "] >>


\* A slip: the closing `except Exception` clause left out.
ShortHandlersNoCatchAll(notFoundLabel) ==
    << [cls |-> "SnipeITNotFoundError", label |-> notFoundLabel],
       [cls |-> "SnipeITException",     label |-> "Snipe-IT error: "] >>

ShortHandlers(notFoundLabel) ==
    << [cls |-> "SnipeITNotFoundError", label |-> notFoundLabel],
       [cls |-> "SnipeITException",     label |-> "Snipe-IT error: "],
       [cls |-> "Exception",            label |-> "Unexpected error: "] >>

\* The except clauses of each tool, in source order.
Handlers(tool) ==
    CASE tool = "manage_assets"      -> FullHandlers("Asset not found: ")
      [] tool = "manage_consumables" -> FullHandlers("Consumable not found: ")
      [] tool = "asset_files"        -> ShortHandlers("Not found: ")
      [] OTHER                       -> ShortHandlers("Asset not found: ")


\* A slip: a failure envelope that also carries an action key.
ErrWithAction(text) == [success |-> FALSE, action |-> "error", error |-> text]

Err(text) == [success |-> FALSE, error |-> text]

\* A slip: except clauses that return str(e) without their label.
CatchUnlabelled(tool, e) ==
    IF \E i \in DOMAIN Handlers(tool) : IsInstance(e.cls, Handlers(tool)[i].cls)
    THEN Some(Err(<<e.msg>>))
    ELSE None

\* The try statement's except clauses applied to exception e: the first
\* clause whose class e is an instance of returns its envelope; with no
\* such clause the exception leaves the tool (None here).
Catch(tool, e) ==
    LET hs == Handlers(tool)
        hits == {i \in DOMAIN hs : IsInstance(e.cls, hs[i].cls)}
    IN  IF hits = {} THEN None
        ELSE LET first == CHOOSE i \in hits : \A j \in hits : i <= j
             IN  Some(Err(<<hs[first].label, e.msg>>))

-----------------------------------------------------------------------------
(* What a tool body does next: a collaborator call or a return.            *)

NoKw == [k \in {} |-> None]

Call(op, pos, kw) == [kind |-> "call", op |-> op, pos |-> pos, kw |-> kw]
Return(env) == [kind |-> "return", env |-> env]

\* getattr(obj, name, None)
GetAttr(obj, name) == IF name \in DOMAIN obj THEN Some(obj[name]) ELSE None

-----------------------------------------------------------------------------
(* manage_assets                                                           *)


\* A slip: the branches in the order id, serial, tag.
AssetLookupIdFirst(a) ==
    IF TruthyInt(a.asset_id) THEN
        Some(Call("assets.get", <<a.asset_id[1]>>, NoKw))
    ELSE IF TruthyStr(a.serial) THEN
        Some(Call("assets.get_by_serial", <<a.serial[1]>>, NoKw))
    ELSE IF TruthyStr(a.asset_tag) THEN
        Some(Call("assets.get_by_tag", <<a.asset_tag[1]>>, NoKw))
    ELSE None

\* The lookup `get` performs: asset_tag, then serial, then asset_id, each
\* tested for truthiness; None when all three are falsy.
AssetLookup(a) ==
    IF TruthyStr(a.asset_tag) THEN
        Some(Call("assets.get_by_tag", <<a.asset_tag[1]>>, NoKw))
    ELSE IF TruthyStr(a.serial) THEN
        Some(Call("assets.get_by_serial", <<a.serial[1]>>, NoKw))
    ELSE IF TruthyInt(a.asset_id) THEN
        Some(Call("assets.get", <<a.asset_id[1]>>, NoKw))
    ELSE None

\* params = {"limit": limit, "offset": offset}, then search, sort and
\* order added when truthy.
ListParams(a) ==
    LET keys == {"limit", "offset"}
                \cup (IF TruthyStr(a.search) THEN {"search"} ELSE {})
                \cup (IF TruthyStr(a.sort) THEN {"sort"} ELSE {})
                \cup (IF TruthyStr(a.order) THEN {"order"} ELSE {})
    IN  [k \in keys |-> a[k]]

AssetDetail(asset) ==
    [id |-> asset.id,
     asset_tag |-> GetAttr(asset, "asset_tag"),
     name |-> GetAttr(asset, "name"),
     serial |-> GetAttr(asset, "serial"),
     model |-> GetAttr(asset, "model"),
     status_label |-> GetAttr(asset, "status_label"),
     category |-> GetAttr(asset, "category"),
     manufacturer |-> GetAttr(asset, "manufacturer"),
     supplier |-> GetAttr(asset, "supplier"),
     notes |-> GetAttr(asset, "notes"),
     location |-> GetAttr(asset, "location"),
     assigned_to |-> GetAttr(asset, "assigned_to"),
     purchase_date |-> GetAttr(asset, "purchase_date"),
     purchase_cost |-> GetAttr(asset, "purchase_cost")]

AssetListItem(asset) ==
    [id |-> asset.id,
     asset_tag |-> GetAttr(asset, "asset_tag"),
     name |-> GetAttr(asset, "name"),
     serial |-> GetAttr(asset, "serial"),
     model |-> None]

ManageAssets(a, r) ==
    CASE a.action = "create" ->
            IF ~TruthyModel(a.asset_data) THEN
                Return(Err(<<"asset_data", " is required for create action">>))
            ELSE IF \/ ~TruthyInt(a.asset_data[1].status_id)
                    \/ ~TruthyInt(a.asset_data[1].model_id) THEN
                Return(Err(<<"status_id", " and ", "model_id",
                             " are required to create an asset">>))
            ELSE IF r = <<>> THEN
                Call("assets.create", <<>>,
                     NonNoneItems(ModelDump(a.asset_data[1])))
            ELSE
                Return([success |-> TRUE, action |-> "create",
                        asset |-> [id |-> r[1].id,
                                   asset_tag |-> GetAttr(r[1], "asset_tag"),
                                   name |-> GetAttr(r[1], "name"),
                                   serial |-> GetAttr(r[1], "serial")]])
      [] a.action = "get" ->
            IF AssetLookup(a) = None THEN
                Return(Err(<<"One of ", "asset_id", ", ", "asset_tag", ", or ",
                             "serial", " is required for get action">>))
            ELSE IF r = <<>> THEN AssetLookup(a)[1]
            ELSE Return([success |-> TRUE, action |-> "get",
                         asset |-> AssetDetail(r[1])])
      [] a.action = "list" ->
            IF r = <<>> THEN Call("assets.list", <<>>, ListParams(a))
            ELSE Return([success |-> TRUE, action |-> "list",
                         count |-> Len(r[1]),
                         assets |-> [i \in DOMAIN r[1] |-> AssetListItem(r[1][i])]])
      [] a.action = "update" ->
            IF ~TruthyInt(a.asset_id) THEN
                Return(Err(<<"asset_id", " is required for update action">>))
            ELSE IF ~TruthyModel(a.asset_data) THEN
                Return(Err(<<"asset_data", " is required for update action">>))
            ELSE IF r = <<>> THEN
                Call("assets.patch", <<a.asset_id[1]>>,
                     NonNoneItems(ModelDump(a.asset_data[1])))
            ELSE
                Return([success |-> TRUE, action |-> "update",
                        asset |-> [id |-> r[1].id,
                                   asset_tag |-> GetAttr(r[1], "asset_tag"),
                                   name |-> GetAttr(r[1], "name")]])
      [] a.action = "delete" ->
            IF ~TruthyInt(a.asset_id) THEN
                Return(Err(<<"asset_id", " is required for delete action">>))
            ELSE IF r = <<>> THEN
                Call("assets.delete", <<a.asset_id[1]>>, NoKw)
            ELSE
                Return([success |-> TRUE, action |-> "delete",
                        asset_id |-> a.asset_id[1],
                        message |-> <<"Asset deleted successfully">>])

-----------------------------------------------------------------------------
(* asset_operations                                                        *)

\* Differs from CheckoutKwargs in always checking out to a user.
CheckoutKwargsToUser(d) ==
    LET always == [checkout_to_type |-> Some("user"),
                   assigned_to_id |-> Some(d.assigned_to_id)]
        keys == DOMAIN always
                \cup {k \in {"expected_checkin", "checkout_at", "note", "name"} :
                          TruthyStr(d[k])}
    IN  [k \in keys |-> IF k \in DOMAIN always THEN always[k] ELSE d[k]]

CheckoutKwargs(d) ==
    LET always == [checkout_to_type |-> Some(d.checkout_to_type),
                   assigned_to_id |-> Some(d.assigned_to_id)]
        keys == DOMAIN always
                \cup (IF TruthyStr(d.expected_checkin)
                      THEN {"expected_checkin"} ELSE {})
                \cup (IF TruthyStr(d.checkout_at) THEN {"checkout_at"} ELSE {})
                \cup (IF TruthyStr(d.note) THEN {"note"} ELSE {})
                \cup (IF TruthyStr(d.name) THEN {"name"} ELSE {})
    IN  [k \in keys |-> IF k \in DOMAIN always THEN always[k] ELSE d[k]]

CheckinKwargs(od) ==
    IF ~TruthyModel(od) THEN NoKw
    ELSE LET d == od[1]
             keys == (IF TruthyStr(d.note) THEN {"note"} ELSE {})
                     \cup (IF TruthyInt(d.location_id) THEN {"location_id"} ELSE {})
         IN  [k \in keys |-> d[k]]

AuditKwargs(od) ==
    IF ~TruthyModel(od) THEN NoKw
    ELSE LET d == od[1]
             keys == (IF TruthyInt(d.location_id) THEN {"location_id"} ELSE {})
                     \cup (IF TruthyStr(d.note) THEN {"note"} ELSE {})
                     \cup (IF TruthyStr(d.next_audit_date)
                           THEN {"next_audit_date"} ELSE {})
         IN  [k \in keys |-> d[k]]

\* The envelope of a successful transition.
Transitioned(action, asset_id, message, projection) ==
    [success |-> TRUE, action |-> action, asset_id |-> asset_id,
     message |-> message, asset |-> projection]


\* A slip: the audit branch calling checkin.
TransitionAuditAsCheckin(a, asset) ==
    CASE a.action = "checkout" ->
            Call("asset.checkout", <<asset>>, CheckoutKwargs(a.checkout_data[1]))
      [] a.action = "checkin" ->
            Call("asset.checkin", <<asset>>, CheckinKwargs(a.checkin_data))
      [] a.action = "audit" ->
            Call("asset.checkin", <<asset>>, AuditKwargs(a.audit_data))
      [] a.action = "restore" ->
            Call("asset.restore", <<asset>>, NoKw)

\* The state-transition call of each action, on the resolved asset.
Transition(a, asset) ==
    CASE a.action = "checkout" ->
            Call("asset.checkout", <<asset>>, CheckoutKwargs(a.checkout_data[1]))
      [] a.action = "checkin" ->
            Call("asset.checkin", <<asset>>, CheckinKwargs(a.checkin_data))
      [] a.action = "audit" ->
            Call("asset.audit", <<asset>>, AuditKwargs(a.audit_data))
      [] a.action = "restore" ->
            Call("asset.restore", <<asset>>, NoKw)

AssetOperations(a, r) ==
    IF r = <<>> THEN Call("assets.get", <<a.asset_id>>, NoKw)
    ELSE IF a.action = "checkout" /\ ~TruthyModel(a.checkout_data) THEN
        Return(Err(<<"checkout_data", " is required for checkout action">>))
    ELSE IF Len(r) = 1 THEN Transition(a, r[1])
    ELSE
        CASE a.action = "checkout" ->
                Return(Transitioned("checkout", a.asset_id,
                    <<"Asset checked out to ", a.checkout_data[1].checkout_to_type,
                      " ", ToString(a.checkout_data[1].assigned_to_id)>>,
                    [id |-> r[2].id,
                     asset_tag |-> GetAttr(r[2], "asset_tag"),
                     assigned_to |-> GetAttr(r[2], "assigned_to")]))
          [] a.action = "checkin" ->
                Return(Transitioned("checkin", a.asset_id,
                    <<"Asset checked in successfully">>,
                    [id |-> r[2].id, asset_tag |-> GetAttr(r[2], "asset_tag")]))
          [] a.action = "audit" ->
                Return(Transitioned("audit", a.asset_id,
                    <<"Asset audited successfully">>,
                    [id |-> r[2].id, asset_tag |-> GetAttr(r[2], "asset_tag")]))
          [] a.action = "restore" ->
                Return(Transitioned("restore", a.asset_id,
                    <<"Asset restored successfully">>,
                    [id |-> r[2].id, asset_tag |-> GetAttr(r[2], "asset_tag")]))

-----------------------------------------------------------------------------
(* asset_files                                                             *)

AssetFiles(a, r) ==
    CASE a.action = "upload" ->
            IF ~TruthyList(a.file_paths) THEN
                Return(Err(<<"file_paths", " is required for upload action">>))
            ELSE IF r = <<>> THEN
                Call("assets.upload_files",
                     <<a.asset_id, a.file_paths[1], a.notes>>, NoKw)
            ELSE
                Return([success |-> TRUE, action |-> "upload",
                        asset_id |-> a.asset_id,
                        message |-> <<"Uploaded ", ToString(Len(a.file_paths[1])),
                                      " file(s) successfully">>,
                        result |-> r[1]])
      [] a.action = "list" ->
            IF r = <<>> THEN Call("assets.list_files", <<a.asset_id>>, NoKw)
            ELSE Return([success |-> TRUE, action |-> "list",
                         asset_id |-> a.asset_id, files |-> r[1]])
      [] a.action = "download" ->
            IF ~IsNotNone(a.file_id) THEN
                Return(Err(<<"file_id", " is required for download action">>))
            ELSE IF ~TruthyStr(a.save_path) THEN
                Return(Err(<<"save_path", " is required for download action">>))
            ELSE IF r = <<>> THEN
                Call("assets.download_file",
                     <<a.asset_id, a.file_id[1], a.save_path[1]>>, NoKw)
            ELSE
                Return([success |-> TRUE, action |-> "download",
                        asset_id |-> a.asset_id, file_id |-> a.file_id[1],
                        saved_to |-> r[1],
                        message |-> <<"File downloaded to ", r[1]>>])
      [] a.action = "delete" ->
            IF ~IsNotNone(a.file_id) THEN
                Return(Err(<<"file_id", " is required for delete action">>))
            ELSE IF r = <<>> THEN
                Call("assets.delete_file", <<a.asset_id, a.file_id[1]>>, NoKw)
            ELSE
                Return([success |-> TRUE, action |-> "delete",
                        asset_id |-> a.asset_id, file_id |-> a.file_id[1],
                        message |-> <<"File deleted successfully">>])

-----------------------------------------------------------------------------
(* asset_labels                                                            *)

\* The check made between get_snipeit_client() and `with client:`.
LabelsRejected(a) == ~TruthyList(a.asset_ids) /\ ~TruthyList(a.asset_tags)

\* Differs from AssetLabels in resolving the ids from the last to the first.
AssetLabelsReversed(a, r) ==
    IF TruthyList(a.asset_ids) THEN
        IF Len(r) < Len(a.asset_ids[1]) THEN
            Call("assets.get",
                 <<a.asset_ids[1][Len(a.asset_ids[1]) - Len(r)]>>, NoKw)
        ELSE IF Len(r) = Len(a.asset_ids[1]) THEN
            Call("assets.labels", <<a.save_path, r>>, NoKw)
        ELSE
            Return([success |-> TRUE, action |-> "generate_labels",
                    saved_to |-> r[Len(r)],
                    message |-> <<"Labels generated and saved to ", r[Len(r)]>>])
    ELSE
        IF r = <<>> THEN
            Call("assets.labels", <<a.save_path, a.asset_tags>>, NoKw)
        ELSE
            Return([success |-> TRUE, action |-> "generate_labels",
                    saved_to |-> r[1],
                    message |-> <<"Labels generated and saved to ", r[1]>>])

AssetLabels(a, r) ==
    IF TruthyList(a.asset_ids) THEN
        IF Len(r) < Len(a.asset_ids[1]) THEN
            Call("assets.get", <<a.asset_ids[1][Len(r) + 1]>>, NoKw)
        ELSE IF Len(r) = Len(a.asset_ids[1]) THEN
            Call("assets.labels", <<a.save_path, r>>, NoKw)
        ELSE
            Return([success |-> TRUE, action |-> "generate_labels",
                    saved_to |-> r[Len(r)],
                    message |-> <<"Labels generated and saved to ", r[Len(r)]>>])
    ELSE
        IF r = <<>> THEN
            Call("assets.labels", <<a.save_path, a.asset_tags>>, NoKw)
        ELSE
            Return([success |-> TRUE, action |-> "generate_labels",
                    saved_to |-> r[1],
                    message |-> <<"Labels generated and saved to ", r[1]>>])

-----------------------------------------------------------------------------
(* asset_maintenance                                                       *)

MaintenanceKwargs(asset_id, d) ==
    LET always == [asset_id |-> Some(asset_id),
                   asset_improvement |-> Some(d.asset_improvement),
                   supplier_id |-> Some(d.supplier_id),
                   title |-> Some(d.title)]
        keys == DOMAIN always
                \cup (IF IsNotNone(d.cost) THEN {"cost"} ELSE {})
                \cup (IF TruthyStr(d.start_date) THEN {"start_date"} ELSE {})
                \cup (IF TruthyStr(d.completion_date)
                      THEN {"completion_date"} ELSE {})
                \cup (IF TruthyStr(d.notes) THEN {"notes"} ELSE {})
    IN  [k \in keys |-> IF k \in DOMAIN always THEN always[k] ELSE d[k]]

AssetMaintenance(a, r) ==
    IF r = <<>> THEN
        Call("assets.create_maintenance", <<>>,
             MaintenanceKwargs(a.asset_id, a.maintenance_data))
    ELSE
        Return([success |-> TRUE, action |-> "create", asset_id |-> a.asset_id,
                message |-> <<"Maintenance record created successfully">>,
                maintenance |-> r[1]])

-----------------------------------------------------------------------------
(* asset_licenses                                                          *)

AssetLicenses(a, r) ==
    IF r = <<>> THEN Call("assets.get_licenses", <<a.asset_id>>, NoKw)
    ELSE Return([success |-> TRUE, asset_id |-> a.asset_id, licenses |-> r[1]])

-----------------------------------------------------------------------------
(* manage_consumables                                                      *)

ConsumableDetail(c) ==
    [id |-> c.id,
     name |-> GetAttr(c, "name"),
     qty |-> GetAttr(c, "qty"),
     category |-> GetAttr(c, "category"),
     company |-> GetAttr(c, "company"),
     location |-> GetAttr(c, "location"),
     manufacturer |-> GetAttr(c, "manufacturer"),
     model_number |-> GetAttr(c, "model_number"),
     item_no |-> GetAttr(c, "item_no"),
     order_number |-> GetAttr(c, "order_number"),
     purchase_date |-> GetAttr(c, "purchase_date"),
     purchase_cost |-> GetAttr(c, "purchase_cost"),
     min_amt |-> GetAttr(c, "min_amt"),
     remaining |-> GetAttr(c, "remaining")]

ConsumableListItem(c) ==
    [id |-> c.id,
     name |-> GetAttr(c, "name"),
     qty |-> GetAttr(c, "qty"),
     remaining |-> GetAttr(c, "remaining")]

ManageConsumables(a, r) ==
    CASE a.action = "create" ->
            IF ~TruthyModel(a.consumable_data) THEN
                Return(Err(<<"consumable_data", " is required for create action">>))
            ELSE IF \/ ~TruthyStr(a.consumable_data[1].name)
                    \/ ~IsNotNone(a.consumable_data[1].qty)
                    \/ ~TruthyInt(a.consumable_data[1].category_id) THEN
                Return(Err(<<"name", ", ", "qty", ", and ", "category_id",
                             " are required to create a consumable">>))
            ELSE IF r = <<>> THEN
                Call("consumables.create", <<>>,
                     NonNoneItems(ModelDump(a.consumable_data[1])))
            ELSE
                Return([success |-> TRUE, action |-> "create",
                        consumable |-> [id |-> r[1].id,
                                        name |-> GetAttr(r[1], "name"),
                                        qty |-> GetAttr(r[1], "qty")]])
      [] a.action = "get" ->
            IF ~TruthyInt(a.consumable_id) THEN
                Return(Err(<<"consumable_id", " is required for get action">>))
            ELSE IF r = <<>> THEN
                Call("consumables.get", <<a.consumable_id[1]>>, NoKw)
            ELSE
                Return([success |-> TRUE, action |-> "get",
                        consumable |-> ConsumableDetail(r[1])])
      [] a.action = "list" ->
            IF r = <<>> THEN Call("consumables.list", <<>>, ListParams(a))
            ELSE Return([success |-> TRUE, action |-> "list",
                         count |-> Len(r[1]),
                         consumables |->
                             [i \in DOMAIN r[1] |-> ConsumableListItem(r[1][i])]])
      [] a.action = "update" ->
            IF ~TruthyInt(a.consumable_id) THEN
                Return(Err(<<"consumable_id", " is required for update action">>))
            ELSE IF ~TruthyModel(a.consumable_data) THEN
                Return(Err(<<"consumable_data", " is required for update action">>))
            ELSE IF r = <<>> THEN
                Call("consumables.patch", <<a.consumable_id[1]>>,
                     NonNoneItems(ModelDump(a.consumable_data[1])))
            ELSE
                Return([success |-> TRUE, action |-> "update",
                        consumable |-> [id |-> r[1].id,
                                        name |-> GetAttr(r[1], "name"),
                                        qty |-> GetAttr(r[1], "qty")]])
      [] a.action = "delete" ->
            IF ~TruthyInt(a.consumable_id) THEN
                Return(Err(<<"consumable_id", " is required for delete action">>))
            ELSE IF r = <<>> THEN
                Call("consumables.delete", <<a.consumable_id[1]>>, NoKw)
            ELSE
                Return([success |-> TRUE, action |-> "delete",
                        consumable_id |-> a.consumable_id[1],
                        message |-> <<"Consumable deleted successfully">>])

-----------------------------------------------------------------------------
(* The body of the `with client:` block of each tool.                      *)

Code(tool, a, r) ==
    CASE tool = "manage_assets"      -> ManageAssets(a, r)
      [] tool = "asset_operations"   -> AssetOperations(a, r)
      [] tool = "asset_files"        -> AssetFiles(a, r)
      [] tool = "asset_labels"       -> AssetLabels(a, r)
      [] tool = "asset_maintenance"  -> AssetMaintenance(a, r)
      [] tool = "asset_licenses"     -> AssetLicenses(a, r)
      [] tool = "manage_consumables" -> ManageConsumables(a, r)

-----------------------------------------------------------------------------
(* The collaborator (the snipeit client): what an operation may return     *)
(* when it does not fault.  Entities carry an id and some attributes; the  *)
(* attributes they lack are what getattr(..., None) defaults.              *)

RemoteAsset(i) == [id |-> i, asset_tag |-> "A", name |-> "n"]
RemoteConsumable(i) == [id |-> i, name |-> "c", qty |-> i]

Returns(c) ==
    CASE c.op = "assets.get"          -> {RemoteAsset(c.pos[1])}
      [] c.op = "assets.patch"        -> {RemoteAsset(c.pos[1])}
      [] c.op \in {"assets.create", "assets.get_by_tag", "assets.get_by_serial"}
                                      -> {RemoteAsset(i) : i \in Ids}
      [] c.op = "assets.list"         -> {<<>>, <<RemoteAsset(MaxId)>>}
      [] c.op \in {"asset.checkout", "asset.checkin", "asset.audit",
                   "asset.restore"}   -> {c.pos[1]}
      [] c.op = "assets.upload_files" -> {[status |-> "success"]}
      [] c.op = "assets.list_files"   -> {<<>>}
      [] c.op = "assets.download_file" -> {c.pos[3]}
      [] c.op = "assets.labels"       -> {c.pos[1], "/srv/labels.pdf"}
      [] c.op = "assets.create_maintenance" -> {[status |-> "success"]}
      [] c.op = "assets.get_licenses" -> {<<>>}
      [] c.op = "consumables.get"     -> {RemoteConsumable(c.pos[1])}
      [] c.op = "consumables.patch"   -> {RemoteConsumable(c.pos[1])}
      [] c.op = "consumables.create"  -> {RemoteConsumable(i) : i \in Ids}
      [] c.op = "consumables.list"    -> {<<>>, <<RemoteConsumable(MaxId)>>}
      [] OTHER                        -> {None}

-----------------------------------------------------------------------------
(* The invocations a caller may make: each tool's signature with its       *)
(* defaults; per action, the parameters that action reads range over       *)
(* their domains and the others keep their defaults.                       *)

OptLimit == {None, Some(DefaultLimit)}
OptOffset == {None, Some(DefaultOffset)}
OptPaths == {None, Some(<<>>), Some(<<"f">>), Some(<<"f", "g">>)}
OptIdList == Opt(SeqsUpTo(Ids, MaxLabels))
OptTagList == {None, Some(<<>>), Some(<<"A">>)}
SavePaths == {"/tmp/asset_labels.pdf", "out.pdf"}

ManageAssetsDefaults ==
    [action |-> "list", asset_id |-> None, asset_tag |-> None, serial |-> None,
     asset_data |-> None, limit |-> Some(DefaultLimit),
     offset |-> Some(DefaultOffset), search |-> None, sort |-> None,
     order |-> None]

ManageAssetsArgs ==
    LET d == ManageAssetsDefaults
    IN  {[d EXCEPT !.action = "create", !.asset_data = x] : x \in Opt(AssetData)}
        \cup {[d EXCEPT !.action = "get", !.asset_id = i, !.asset_tag = t,
                        !.serial = n] : i \in OptId, t \in OptStr, n \in OptStr}
        \cup {[d EXCEPT !.action = "list", !.limit = l, !.offset = o,
                        !.search = q, !.sort = k, !.order = r] :
                  l \in OptLimit, o \in OptOffset, q \in OptStr, k \in OptStr,
                  r \in OptOrder}
        \cup {[d EXCEPT !.action = "update", !.asset_id = i, !.asset_data = x] :
                  i \in OptId, x \in Opt(AssetData)}
        \cup {[d EXCEPT !.action = "delete", !.asset_id = i] : i \in OptId}

AssetOperationsDefaults ==
    [action |-> "restore", asset_id |-> 0, checkout_data |-> None,
     checkin_data |-> None, audit_data |-> None]

AssetOperationsArgs ==
    LET d == AssetOperationsDefaults
    IN  {[d EXCEPT !.action = "checkout", !.asset_id = i, !.checkout_data = x] :
                  i \in Ids, x \in Opt(CheckoutData)}
        \cup {[d EXCEPT !.action = "checkin", !.asset_id = i, !.checkin_data = x] :
                  i \in Ids, x \in Opt(CheckinData)}
        \cup {[d EXCEPT !.action = "audit", !.asset_id = i, !.audit_data = x] :
                  i \in Ids, x \in Opt(AuditData)}
        \cup {[d EXCEPT !.action = "restore", !.asset_id = i] : i \in Ids}

AssetFilesDefaults ==
    [action |-> "list", asset_id |-> 0, file_paths |-> None, notes |-> None,
     file_id |-> None, save_path |-> None]

AssetFilesArgs ==
    LET d == AssetFilesDefaults
    IN  {[d EXCEPT !.action = "upload", !.asset_id = i, !.file_paths = f,
                        !.notes = n] : i \in Ids, f \in OptPaths, n \in OptStr}
        \cup {[d EXCEPT !.action = "list", !.asset_id = i] : i \in Ids}
        \cup {[d EXCEPT !.action = "download", !.asset_id = i, !.file_id = f,
                        !.save_path = s] : i \in Ids, f \in OptId, s \in OptStr}
        \cup {[d EXCEPT !.action = "delete", !.asset_id = i, !.file_id = f] :
                  i \in Ids, f \in OptId}

AssetLabelsArgs ==
    [asset_ids : OptIdList, asset_tags : OptTagList, save_path : SavePaths]

AssetMaintenanceArgs ==
    [action : {"create"}, asset_id : Ids, maintenance_data : MaintenanceData]

AssetLicensesArgs == [asset_id : Ids]

ManageConsumablesDefaults ==
    [action |-> "list", consumable_id |-> None, consumable_data |-> None,
     limit |-> Some(DefaultLimit), offset |-> Some(DefaultOffset),
     search |-> None, sort |-> None, order |-> None]

ManageConsumablesArgs ==
    LET d == ManageConsumablesDefaults
    IN  {[d EXCEPT !.action = "create", !.consumable_data = x] :
                  x \in Opt(ConsumableData)}
        \cup {[d EXCEPT !.action = "get", !.consumable_id = i] : i \in OptId}
        \cup {[d EXCEPT !.action = "list", !.limit = l, !.offset = o,
                        !.search = q, !.sort = k, !.order = r] :
                  l \in OptLimit, o \in OptOffset, q \in OptStr, k \in OptStr,
                  r \in OptOrder}
        \cup {[d EXCEPT !.action = "update", !.consumable_id = i,
                        !.consumable_data = x] :
                  i \in OptId, x \in Opt(ConsumableData)}
        \cup {[d EXCEPT !.action = "delete", !.consumable_id = i] : i \in OptId}

ArgsOf(tool) ==
    CASE tool = "manage_assets"      -> ManageAssetsArgs
      [] tool = "asset_operations"   -> AssetOperationsArgs
      [] tool = "asset_files"        -> AssetFilesArgs
      [] tool = "asset_labels"       -> AssetLabelsArgs
      [] tool = "asset_maintenance"  -> AssetMaintenanceArgs
      [] tool = "asset_licenses"     -> AssetLicensesArgs
      [] tool = "manage_consumables" -> ManageConsumablesArgs

NoInvocation == [tool |-> "none", args |-> None]

\* The invocations drawn when several run at once: of each kind of run (an
\* update of either entity, a transition refused for want of its payload,
\* a label request refused before the with block) a few of the above.
SampleArgs(tool) ==
    CASE tool = "manage_assets" ->
            {a \in ManageAssetsArgs :
                /\ a.action = "update"
                /\ a.asset_id = Some(MaxId)
                /\ a.asset_data # None
                /\ a.asset_data[1].status_id # None
                /\ a.asset_data[1].model_id = None
                /\ a.asset_data[1].name = None
                /\ a.asset_data[1].requestable = None}
      [] tool = "manage_consumables" ->
            {a \in ManageConsumablesArgs :
                /\ a.action = "update"
                /\ a.consumable_id = Some(MaxId)
                /\ a.consumable_data # None
                /\ a.consumable_data[1] =
                       [name |-> None, qty |-> Some(0), category_id |-> None,
                        notes |-> None]}
      [] tool = "asset_operations" ->
            {a \in AssetOperationsArgs :
                /\ a.action = "checkout"
                /\ a.asset_id = MaxId
                /\ a.checkout_data = None}
      [] tool = "asset_labels" ->
            {a \in AssetLabelsArgs :
                /\ a.asset_ids = None
                /\ a.asset_tags = None
                /\ a.save_path = "out.pdf"}
      [] OTHER -> {}

\* What the caller of a slot may invoke.
ArgsFor(tool) ==
    IF Cardinality(active) > 1 THEN SampleArgs(tool) ELSE ArgsOf(tool)

-----------------------------------------------------------------------------
(* The state machine.                                                      *)

\* How a collaborator interaction ends: it returns, or raises a fault.
Returned == [cls |-> "ok", msg |-> ""]
Outcomes == {Returned} \cup Faults

\* One collaborator interaction as the invocation saw it end: the outcome
\* and, for an operation that returned, the value.
Response(out, val) == [out |-> out, val |-> val]

\* The SnipeIT objects some invocation still refers to.
LiveClients == {client[p][1] : p \in {q \in Procs : client[q] # None}}

\* Differs from NewClient in handing out one process-wide instance.
SharedClient(live) == 1

\* SnipeIT(url=..., token=...) constructs an object: its identity differs
\* from that of every object still referred to.
NewClient(live) ==
    CHOOSE n \in 1..(Cardinality(live) + 1) :
        n \notin live /\ \A m \in 1..(n - 1) : m \in live

\* Process start: the two environment variables are read once; each is
\* unset, empty or set.
Init ==
    /\ cfg \in [url : OptStr, token : OptStr]
    /\ active = {"p1"}
    /\ pc = [p \in Procs |-> "idle"]
    /\ inv = [p \in Procs |-> NoInvocation]
    /\ client = [p \in Procs |-> None]
    /\ conn = [p \in Procs |-> "none"]
    /\ calls = [p \in Procs |-> <<>>]
    /\ rets = [p \in Procs |-> <<>>]
    /\ resp = [p \in Procs |-> <<>>]
    /\ exc = [p \in Procs |-> None]
    /\ retval = [p \in Procs |-> None]
    /\ envelope = [p \in Procs |-> None]

\* An exception reaches the try statement's except clauses: the tool
\* returns the envelope of the clause that catches it; uncaught, it leaves
\* the tool.
Handle(p, e) ==
    /\ exc' = [exc EXCEPT ![p] = Some(e)]
    /\ LET caught == Catch(inv[p].tool, e)
       IN  IF caught = None
           THEN pc' = [pc EXCEPT ![p] = "raised"] /\ UNCHANGED envelope
           ELSE /\ pc' = [pc EXCEPT ![p] = "done"]
                /\ envelope' = [envelope EXCEPT ![p] = caught]

\* The caller invokes a tool.
Invoke(p) ==
    /\ p \in active
    /\ pc[p] = "idle"
    /\ \E t \in Tools : \E a \in ArgsFor(t) :
           inv' = [inv EXCEPT ![p] = [tool |-> t, args |-> a]]
    /\ pc' = [pc EXCEPT ![p] = "construct"]
    /\ client' = [client EXCEPT ![p] = None]
    /\ conn' = [conn EXCEPT ![p] = "none"]
    /\ calls' = [calls EXCEPT ![p] = <<>>]
    /\ rets' = [rets EXCEPT ![p] = <<>>]
    /\ resp' = [resp EXCEPT ![p] = <<>>]
    /\ exc' = [exc EXCEPT ![p] = None]
    /\ retval' = [retval EXCEPT ![p] = None]
    /\ envelope' = [envelope EXCEPT ![p] = None]
    /\ UNCHANGED <<cfg, active>>

\* client = get_snipeit_client(), and in asset_labels the check that
\* follows it before the with block.
GetClient(p) ==
    /\ pc[p] = "construct"
    /\ IF ~Configured(cfg) THEN
           Handle(p, ConfigFault) /\ UNCHANGED <<client, conn, resp>>
       ELSE \E out \in Outcomes :
           /\ resp' = [resp EXCEPT ![p] = Append(@, Response(out, None))]
           /\ IF out # Returned THEN
                  Handle(p, out) /\ UNCHANGED <<client, conn>>
              ELSE
                  /\ client' = [client EXCEPT ![p] =
                         Some(NewClient(LiveClients))]
                  /\ conn' = [conn EXCEPT ![p] = "created"]
                  /\ UNCHANGED exc
                  /\ IF /\ inv[p].tool = "asset_labels"
                        /\ LabelsRejected(inv[p].args)
                     THEN /\ pc' = [pc EXCEPT ![p] = "done"]
                          /\ envelope' = [envelope EXCEPT ![p] =
                                 Some(Err(<<"Either ", "asset_ids", " or ",
                                            "asset_tags", " must be provided">>))]
                     ELSE /\ pc' = [pc EXCEPT ![p] = "enter"]
                          /\ UNCHANGED envelope
    /\ UNCHANGED <<cfg, active, inv, calls, rets, retval>>

\* `with client:` calls client.__enter__().
Enter(p) ==
    /\ pc[p] = "enter"
    /\ \E out \in Outcomes :
           /\ resp' = [resp EXCEPT ![p] = Append(@, Response(out, None))]
           /\ IF out # Returned THEN
                  Handle(p, out) /\ UNCHANGED conn
              ELSE
                  /\ conn' = [conn EXCEPT ![p] = "entered"]
                  /\ pc' = [pc EXCEPT ![p] = "body"]
                  /\ UNCHANGED <<exc, envelope>>
    /\ UNCHANGED <<cfg, active, inv, client, calls, rets, retval>>

\* Differs from Body in retrying once: when its first call faults, other
\* than with a plain Exception, the with block makes the same call again.
BodyRetrying(p) ==
    /\ pc[p] = "body"
    /\ LET nx == Code(inv[p].tool, inv[p].args, rets[p])
       IN  IF nx.kind = "return" THEN
               /\ retval' = [retval EXCEPT ![p] = Some(nx.env)]
               /\ pc' = [pc EXCEPT ![p] = "exit"]
               /\ UNCHANGED <<calls, rets, resp, exc>>
           ELSE \E out \in Outcomes :
               /\ calls' = [calls EXCEPT ![p] =
                      Append(@, [op |-> nx.op, pos |-> nx.pos, kw |-> nx.kw,
                                 out |-> out.cls])]
               /\ IF out = Returned THEN
                      /\ \E v \in Returns(nx) :
                             /\ rets' = [rets EXCEPT ![p] = Append(@, v)]
                             /\ resp' = [resp EXCEPT ![p] =
                                    Append(@, Response(out, Some(v)))]
                      /\ UNCHANGED <<pc, exc>>
                  ELSE
                      /\ resp' = [resp EXCEPT ![p] =
                             Append(@, Response(out, None))]
                      /\ IF out.cls = "Exception" \/ Len(calls[p]) >= 1
                         THEN /\ exc' = [exc EXCEPT ![p] = Some(out)]
                              /\ pc' = [pc EXCEPT ![p] = "exit"]
                         ELSE UNCHANGED <<pc, exc>>
                      /\ UNCHANGED rets
               /\ UNCHANGED retval
    /\ UNCHANGED <<cfg, active, inv, client, conn, envelope>>

\* The with block runs to its next collaborator call, which returns or
\* faults, or to its return statement.
Body(p) ==
    /\ pc[p] = "body"
    /\ LET nx == Code(inv[p].tool, inv[p].args, rets[p])
       IN  IF nx.kind = "return" THEN
               /\ retval' = [retval EXCEPT ![p] = Some(nx.env)]
               /\ pc' = [pc EXCEPT ![p] = "exit"]
               /\ UNCHANGED <<calls, rets, resp, exc>>
           ELSE \E out \in Outcomes :
               /\ calls' = [calls EXCEPT ![p] =
                      Append(@, [op |-> nx.op, pos |-> nx.pos, kw |-> nx.kw,
                                 out |-> out.cls])]
               /\ IF out = Returned THEN
                      /\ \E v \in Returns(nx) :
                             /\ rets' = [rets EXCEPT ![p] = Append(@, v)]
                             /\ resp' = [resp EXCEPT ![p] =
                                    Append(@, Response(out, Some(v)))]
                      /\ UNCHANGED <<pc, exc>>
                  ELSE
                      /\ exc' = [exc EXCEPT ![p] = Some(out)]
                      /\ pc' = [pc EXCEPT ![p] = "exit"]
                      /\ resp' = [resp EXCEPT ![p] =
                             Append(@, Response(out, None))]
                      /\ UNCHANGED rets
               /\ UNCHANGED retval
    /\ UNCHANGED <<cfg, active, inv, client, conn, envelope>>

\* Leaving the with block, by return or by exception, calls
\* client.__exit__(); an exception it raises replaces what was in flight.
Exit(p) ==
    /\ pc[p] = "exit"
    /\ conn' = [conn EXCEPT ![p] = "exited"]
    /\ \E out \in Outcomes :
           /\ resp' = [resp EXCEPT ![p] = Append(@, Response(out, None))]
           /\ IF out # Returned THEN Handle(p, out)
              ELSE IF exc[p] # None THEN Handle(p, exc[p][1])
              ELSE /\ pc' = [pc EXCEPT ![p] = "done"]
                   /\ envelope' = [envelope EXCEPT ![p] = retval[p]]
                   /\ UNCHANGED exc
    /\ UNCHANGED <<cfg, active, inv, client, calls, rets, retval>>

\* The call is over: its client, locals and envelope are no longer
\* referenced by the tool, and the caller may invoke again.
Discard(p) ==
    /\ pc[p] \in {"done", "raised"}
    /\ pc' = [pc EXCEPT ![p] = "idle"]
    /\ inv' = [inv EXCEPT ![p] = NoInvocation]
    /\ client' = [client EXCEPT ![p] = None]
    /\ conn' = [conn EXCEPT ![p] = "none"]
    /\ calls' = [calls EXCEPT ![p] = <<>>]
    /\ rets' = [rets EXCEPT ![p] = <<>>]
    /\ resp' = [resp EXCEPT ![p] = <<>>]
    /\ exc' = [exc EXCEPT ![p] = None]
    /\ retval' = [retval EXCEPT ![p] = None]
    /\ envelope' = [envelope EXCEPT ![p] = None]
    /\ UNCHANGED <<cfg, active>>

Next ==
    \E p \in Procs :
        \/ Invoke(p)
        \/ GetClient(p)
        \/ Enter(p)
        \/ Body(p)
        \/ Exit(p)
        \/ Discard(p)

Spec == Init /\ [][Next]_vars

\* One invocation's own steps, from its call to its return.
Run(p) == GetClient(p) \/ Enter(p) \/ Body(p) \/ Exit(p)

\* The tools are synchronous code: an invocation keeps running, given that
\* every collaborator interaction it waits for returns or faults.
FairSpec == Spec /\ \A p \in Procs : WF_vars(Run(p))

\* The server handling two invocations at once (spec section 5: calls are
\* independent and may overlap).
InitConcurrent ==
    /\ cfg \in [url : OptStr, token : OptStr]
    /\ active = Procs
    /\ pc = [p \in Procs |-> "idle"]
    /\ inv = [p \in Procs |-> NoInvocation]
    /\ client = [p \in Procs |-> None]
    /\ conn = [p \in Procs |-> "none"]
    /\ calls = [p \in Procs |-> <<>>]
    /\ rets = [p \in Procs |-> <<>>]
    /\ resp = [p \in Procs |-> <<>>]
    /\ exc = [p \in Procs |-> None]
    /\ retval = [p \in Procs |-> None]
    /\ envelope = [p \in Procs |-> None]

SpecConcurrent == InitConcurrent /\ [][Next]_vars

-----------------------------------------------------------------------------
(* Vocabulary of the properties.                                           *)

ToolOf(p) == inv[p].tool
ArgsIn(p) == inv[p].args
HasReturned(p) == pc[p] = "done"
EnvelopeOf(p) == envelope[p][1]

\* The required fields an invocation leaves out (passes as None), per the
\* tools' parameter descriptions; for the alternative identifiers of
\* manage_assets get and of asset_labels, all of them when none is given.
Omitted(i) ==
    LET a == i.args
        missing(fields) == {f \in fields : a[f] = None}
        within(data, fields) ==
            IF a[data] = None THEN {data}
            ELSE {f \in fields : a[data][1][f] = None}
        allOf(fields) == IF \A f \in fields : a[f] = None THEN fields ELSE {}
    IN  CASE i.tool = "manage_assets" /\ a.action = "create" ->
                within("asset_data", {"status_id", "model_id"})
          [] i.tool = "manage_assets" /\ a.action = "get" ->
                allOf({"asset_id", "asset_tag", "serial"})
          [] i.tool = "manage_assets" /\ a.action = "update" ->
                missing({"asset_id", "asset_data"})
          [] i.tool = "manage_assets" /\ a.action = "delete" ->
                missing({"asset_id"})
          [] i.tool = "asset_operations" /\ a.action = "checkout" ->
                missing({"checkout_data"})
          [] i.tool = "asset_files" /\ a.action = "upload" ->
                missing({"file_paths"})
          [] i.tool = "asset_files" /\ a.action = "download" ->
                missing({"file_id", "save_path"})
          [] i.tool = "asset_files" /\ a.action = "delete" ->
                missing({"file_id"})
          [] i.tool = "asset_labels" ->
                allOf({"asset_ids", "asset_tags"})
          [] i.tool = "manage_consumables" /\ a.action = "create" ->
                within("consumable_data", {"name", "qty", "category_id"})
          [] i.tool = "manage_consumables" /\ a.action \in {"get", "delete"} ->
                missing({"consumable_id"})
          [] i.tool = "manage_consumables" /\ a.action = "update" ->
                missing({"consumable_id", "consumable_data"})
          [] OTHER -> {}

\* The fields an action requires, named in its parameter descriptions.
RequiredFields(i) ==
    LET a == i.args
    IN  CASE i.tool = "manage_assets" /\ a.action = "create" ->
                {"asset_data", "status_id", "model_id"}
          [] i.tool = "manage_assets" /\ a.action = "get" ->
                {"asset_id", "asset_tag", "serial"}
          [] i.tool = "manage_assets" /\ a.action = "update" ->
                {"asset_id", "asset_data"}
          [] i.tool = "manage_assets" /\ a.action = "delete" -> {"asset_id"}
          [] i.tool = "asset_operations" /\ a.action = "checkout" ->
                {"checkout_data"}
          [] i.tool = "asset_files" /\ a.action = "upload" -> {"file_paths"}
          [] i.tool = "asset_files" /\ a.action = "download" ->
                {"file_id", "save_path"}
          [] i.tool = "asset_files" /\ a.action = "delete" -> {"file_id"}
          [] i.tool = "asset_labels" -> {"asset_ids", "asset_tags"}
          [] i.tool = "manage_consumables" /\ a.action = "create" ->
                {"consumable_data", "name", "qty", "category_id"}
          [] i.tool = "manage_consumables" /\ a.action \in {"get", "delete"} ->
                {"consumable_id"}
          [] i.tool = "manage_consumables" /\ a.action = "update" ->
                {"consumable_id", "consumable_data"}
          [] OTHER -> {}

\* The pieces of a text.
Names(text, field) == field \in Range(text)

\* calls is the single call of op with positional arguments pos.
OnlyCall(p, op, pos) ==
    /\ Len(calls[p]) = 1
    /\ calls[p][1].op = op
    /\ calls[p][1].pos = pos

-----------------------------------------------------------------------------
(* C1. An invocation that omits a required field returns success=false     *)
(* with an error naming a required field, and has invoked no collaborator  *)
(* operation.  Stated for invocations made with the configuration present  *)
(* and in which no collaborator interaction faulted.  The code contradicts *)
(* it: asset_operations looks the asset up before it tests checkout_data.  *)
C1_OmittedFieldFailsWithoutCalls ==
    \A p \in Procs :
        (/\ HasReturned(p)
         /\ Configured(cfg)
         /\ exc[p] = None
         /\ Omitted(inv[p]) # {})
        => /\ EnvelopeOf(p).success = FALSE
           /\ \E f \in RequiredFields(inv[p]) : Names(EnvelopeOf(p).error, f)
           /\ calls[p] = <<>>

-----------------------------------------------------------------------------
(* C2. No fault leaves a tool: whatever the collaborator raises at client  *)
(* construction, __enter__, an operation or __exit__, the invocation never *)
(* ends by raising; it returns an envelope, and when a fault was caught    *)
(* the envelope has success=false and a non-empty error text that ends     *)
(* with the fault's own description.                                       *)
C2_NoFaultEscapes ==
    \A p \in Procs :
        /\ pc[p] # "raised"
        /\ HasReturned(p) => envelope[p] # None
        /\ (HasReturned(p) /\ exc[p] # None) =>
               /\ EnvelopeOf(p).success = FALSE
               /\ "error" \in DOMAIN EnvelopeOf(p)
               /\ Len(EnvelopeOf(p).error) = 2
               /\ EnvelopeOf(p).error[2] = exc[p][1].msg

\* An unexpected (non-SnipeIT) fault raised by __exit__ after the body had
\* already computed a success envelope, contained as an error envelope.
C2_Witness ==
    \E p \in Procs :
        /\ HasReturned(p)
        /\ exc[p] # None
        /\ exc[p][1].cls = "Exception"
        /\ retval[p] # None
        /\ retval[p][1].success
        /\ ~EnvelopeOf(p).success

-----------------------------------------------------------------------------
(* C3. Every returned envelope with success=true has no error key, and     *)
(* every returned envelope with success=false has exactly the keys         *)
(* success and error.                                                      *)
C3_EnvelopeShape ==
    \A p \in Procs :
        HasReturned(p) =>
            /\ EnvelopeOf(p).success => "error" \notin DOMAIN EnvelopeOf(p)
            /\ ~EnvelopeOf(p).success =>
                   DOMAIN EnvelopeOf(p) = {"success", "error"}

\* A failure envelope returned although the collaborator had already
\* handed back data in this invocation.
C3_Witness ==
    \E p \in Procs :
        /\ HasReturned(p)
        /\ ~EnvelopeOf(p).success
        /\ rets[p] # <<>>

-----------------------------------------------------------------------------
(* C4. In every tool, a caught collaborator fault of each named category   *)
(* yields that category's prefix: not-found a "... not found: " label,     *)
(* authentication "Authentication failed: ", validation                    *)
(* "Validation error: ", any other SnipeIT fault "Snipe-IT error: ".  The  *)
(* code contradicts it: only manage_assets and manage_consumables have     *)
(* except clauses for the authentication and validation errors.            *)
CategoryLabels(cls) ==
    CASE cls = "SnipeITNotFoundError" ->
            {"Asset not found: ", "Consumable not found: ", "Not found: "}
      [] cls = "SnipeITAuthenticationError" -> {"Authentication failed: "}
      [] cls = "SnipeITValidationError" -> {"Validation error: "}
      [] cls = "SnipeITException" -> {"Snipe-IT error: "}

C4_CategoryPrefixInEveryTool ==
    \A p \in Procs :
        (/\ HasReturned(p)
         /\ exc[p] # None
         /\ exc[p][1].cls # "Exception")
        => EnvelopeOf(p).error[1] \in CategoryLabels(exc[p][1].cls)

-----------------------------------------------------------------------------
(* C5. Every patch call of manage_assets(update) and of                    *)
(* manage_consumables(update) carries the entity ID and, as keywords,      *)
(* exactly the payload fields that were supplied (not None), each with     *)
(* the value supplied: an absent field is never forwarded, and a field     *)
(* supplied as 0, False or "" is forwarded with that value.                *)
PayloadOf(p) ==
    IF ToolOf(p) = "manage_assets" THEN ArgsIn(p).asset_data[1]
    ELSE ArgsIn(p).consumable_data[1]

EntityIdOf(p) ==
    IF ToolOf(p) = "manage_assets" THEN ArgsIn(p).asset_id[1]
    ELSE ArgsIn(p).consumable_id[1]

C5_SparseUpdate ==
    \A p \in Procs :
        \A n \in DOMAIN calls[p] :
            calls[p][n].op \in {"assets.patch", "consumables.patch"} =>
                /\ ArgsIn(p).action = "update"
                /\ calls[p][n].op =
                       (IF ToolOf(p) = "manage_assets" THEN "assets.patch"
                        ELSE "consumables.patch")
                /\ Len(calls[p]) = 1
                /\ calls[p][n].pos = <<EntityIdOf(p)>>
                /\ DOMAIN calls[p][n].kw =
                       {k \in DOMAIN PayloadOf(p) : PayloadOf(p)[k] # None}
                /\ \A k \in DOMAIN calls[p][n].kw :
                       calls[p][n].kw[k] = PayloadOf(p)[k]

\* An asset patch call that forwards status_id=0, name="" and
\* requestable=False and leaves out the absent model_id.
C5_Witness ==
    \E p \in Procs :
        /\ calls[p] # <<>>
        /\ calls[p][1].op = "assets.patch"
        /\ ArgsIn(p).asset_data[1].model_id = None
        /\ DOMAIN calls[p][1].kw = {"status_id", "name", "requestable"}
        /\ calls[p][1].kw.status_id = Some(0)
        /\ calls[p][1].kw.name = Some("")
        /\ calls[p][1].kw.requestable = Some(FALSE)

-----------------------------------------------------------------------------
(* C6 as claimed: in manage_assets(get), whenever asset_tag is given the   *)
(* tag lookup is the one call made; otherwise whenever serial is given     *)
(* the serial lookup; otherwise, asset_id being given, the ID lookup; so   *)
(* exactly one lookup is invoked when at least one identifier is given.    *)
(* "Given" is "not None" here.  Stated of invocations that ran their with  *)
(* block and left it.                                                      *)
RanGet(p) ==
    /\ ToolOf(p) = "manage_assets"
    /\ ArgsIn(p).action = "get"
    /\ conn[p] = "exited"

C6_PriorityAmongGiven ==
    \A p \in Procs :
        RanGet(p) =>
            LET a == ArgsIn(p)
            IN  /\ a.asset_tag # None =>
                       OnlyCall(p, "assets.get_by_tag", <<a.asset_tag[1]>>)
                /\ (a.asset_tag = None /\ a.serial # None) =>
                       OnlyCall(p, "assets.get_by_serial", <<a.serial[1]>>)
                /\ (a.asset_tag = None /\ a.serial = None /\ a.asset_id # None) =>
                       OnlyCall(p, "assets.get", <<a.asset_id[1]>>)

(* C6 as amended: the priority tag > serial > id holds among the           *)
(* identifiers that are non-empty (a non-empty tag, a non-empty serial, a  *)
(* non-zero ID): the first of them in that order decides the lookup, which *)
(* is the one collaborator call made; when none is non-empty no lookup is  *)
(* made at all.                                                            *)
C6_PriorityAmongNonEmpty ==
    \A p \in Procs :
        RanGet(p) =>
            LET a == ArgsIn(p)
            IN  IF TruthyStr(a.asset_tag) THEN
                    OnlyCall(p, "assets.get_by_tag", <<a.asset_tag[1]>>)
                ELSE IF TruthyStr(a.serial) THEN
                    OnlyCall(p, "assets.get_by_serial", <<a.serial[1]>>)
                ELSE IF TruthyInt(a.asset_id) THEN
                    OnlyCall(p, "assets.get", <<a.asset_id[1]>>)
                ELSE calls[p] = <<>>

\* All three identifiers given non-empty, and the tag lookup was the call.
C6_Witness ==
    \E p \in Procs :
        /\ RanGet(p)
        /\ TruthyStr(ArgsIn(p).asset_tag)
        /\ TruthyStr(ArgsIn(p).serial)
        /\ TruthyInt(ArgsIn(p).asset_id)
        /\ OnlyCall(p, "assets.get_by_tag", <<ArgsIn(p).asset_tag[1]>>)

-----------------------------------------------------------------------------
(* C7. In asset_operations the first collaborator call is the lookup of    *)
(* the asset by its ID and nothing is called before it; a transition is    *)
(* called only after the lookup returned, at most once, it is the one of   *)
(* the action tag, and it is called on the entity the lookup returned.  If *)
(* the lookup raises not-found, no transition is called and the envelope   *)
(* has success=false, with the "Asset not found: " prefix unless __exit__  *)
(* raised a fault of its own.  A successful invocation made exactly the    *)
(* lookup and then the transition.                                         *)
TransitionOp(action) ==
    CASE action = "checkout" -> "asset.checkout"
      [] action = "checkin"  -> "asset.checkin"
      [] action = "audit"    -> "asset.audit"
      [] action = "restore"  -> "asset.restore"

C7_LookupThenOneTransition ==
    \A p \in Procs :
        ToolOf(p) = "asset_operations" =>
            LET a == ArgsIn(p)
                c == calls[p]
            IN  /\ Len(c) <= 2
                /\ Len(c) >= 1 =>
                       /\ c[1].op = "assets.get"
                       /\ c[1].pos = <<a.asset_id>>
                /\ Len(c) = 2 =>
                       /\ c[1].out = "ok"
                       /\ c[2].op = TransitionOp(a.action)
                       /\ c[2].pos = <<rets[p][1]>>
                /\ (Len(c) >= 1 /\ c[1].out = "SnipeITNotFoundError") =>
                       /\ Len(c) = 1
                       /\ HasReturned(p) =>
                              /\ ~EnvelopeOf(p).success
                              /\ exc[p][1].cls = "SnipeITNotFoundError" =>
                                     EnvelopeOf(p).error[1] = "Asset not found: "
                /\ (HasReturned(p) /\ EnvelopeOf(p).success) =>
                       /\ Len(c) = 2
                       /\ c[2].out = "ok"

\* A successful audit: the lookup, then asset.audit on the entity found.
C7_Witness ==
    \E p \in Procs :
        /\ ToolOf(p) = "asset_operations"
        /\ ArgsIn(p).action = "audit"
        /\ HasReturned(p)
        /\ EnvelopeOf(p).success
        /\ Len(calls[p]) = 2
        /\ calls[p][2].op = "asset.audit"

-----------------------------------------------------------------------------
(* C8. No invocation returns while the client it created is unreleased:    *)
(* at the return the client was either never created or __exit__ has been  *)
(* called on it.  The code contradicts it: asset_labels creates the        *)
(* client and returns its validation error before the with block.          *)
C8_ClientReleasedAtReturn ==
    \A p \in Procs : HasReturned(p) => conn[p] \in {"none", "exited"}

-----------------------------------------------------------------------------
(* C9. With either configuration setting missing (unset or empty), no      *)
(* client is built, no collaborator operation is invoked and the with      *)
(* block is never entered, no fault escapes, and every invocation that     *)
(* returns returns success=false with the error "Snipe-IT error: "         *)
(* followed by the configuration fault's message.                          *)
SettingMissing(o) == o = None \/ o = Some("")

C9_MissingConfiguration ==
    (SettingMissing(cfg.url) \/ SettingMissing(cfg.token)) =>
        \A p \in Procs :
            /\ pc[p] \in {"idle", "construct", "done"}
            /\ conn[p] = "none"
            /\ calls[p] = <<>>
            /\ HasReturned(p) =>
                   envelope[p] = Some(Err(<<"Snipe-IT error: ", ConfigFault.msg>>))

\* The URL is set and only the token is missing; a checkout that would
\* have called the collaborator has returned.
C9_Witness ==
    \E p \in Procs :
        /\ TruthyStr(cfg.url)
        /\ cfg.token = None
        /\ HasReturned(p)
        /\ ToolOf(p) = "asset_operations"
        /\ ArgsIn(p).action = "checkout"
        /\ ArgsIn(p).checkout_data # None

-----------------------------------------------------------------------------
(* C10. A list invocation of manage_assets or manage_consumables that      *)
(* succeeds made exactly one list call, whose parameters hold no None and  *)
(* no empty string, and hold search, sort and order exactly when they      *)
(* were supplied non-empty.  The code contradicts it: limit and offset     *)
(* are forwarded as they come, None included.                              *)
C10_ListForwardsNoNull ==
    \A p \in Procs :
        (/\ ToolOf(p) \in {"manage_assets", "manage_consumables"}
         /\ ArgsIn(p).action = "list"
         /\ HasReturned(p)
         /\ EnvelopeOf(p).success)
        => /\ Len(calls[p]) = 1
           /\ calls[p][1].op \in {"assets.list", "consumables.list"}
           /\ \A k \in DOMAIN calls[p][1].kw : calls[p][1].kw[k] # None
           /\ \A k \in {"search", "sort", "order"} :
                  /\ k \in DOMAIN calls[p][1].kw <=> TruthyStr(ArgsIn(p)[k])
                  /\ k \in DOMAIN calls[p][1].kw => calls[p][1].kw[k] # Some("")

-----------------------------------------------------------------------------
\* The ids asset_labels resolves: its asset_ids when that list is non-empty.
LabelIds(p) ==
    IF TruthyList(ArgsIn(p).asset_ids) THEN ArgsIn(p).asset_ids[1] ELSE <<>>

(* C11. In asset_labels the calls made so far are, in this order, one      *)
(* lookup per asset id in input order and then at most one label           *)
(* generation: generation receives the caller's save_path and the          *)
(* looked-up assets (or, when no id is to be resolved, the asset_tags as   *)
(* given); a call that faults is the last call; a successful invocation    *)
(* made the generation call and returns the path that call returned.       *)
C11_LookupsThenOneGeneration ==
    \A p \in Procs :
        ToolOf(p) = "asset_labels" =>
            LET ids == LabelIds(p)
                cs == calls[p]
                n == Len(cs)
            IN  /\ n <= Len(ids) + 1
                /\ \A i \in 1..n :
                       /\ i < n => cs[i].out = "ok"
                       /\ i <= Len(ids) =>
                              /\ cs[i].op = "assets.get"
                              /\ cs[i].pos = <<ids[i]>>
                       /\ i = Len(ids) + 1 =>
                              /\ cs[i].op = "assets.labels"
                              /\ cs[i].pos[1] = ArgsIn(p).save_path
                              /\ IF ids # <<>>
                                 THEN cs[i].pos[2] =
                                          [j \in 1..Len(ids) |-> RemoteAsset(ids[j])]
                                 ELSE cs[i].pos[2] = ArgsIn(p).asset_tags
                /\ (HasReturned(p) /\ EnvelopeOf(p).success) =>
                       /\ n = Len(ids) + 1
                       /\ cs[n].out = "ok"
                       /\ EnvelopeOf(p).saved_to = rets[p][n]

\* Labels for two different ids were generated, and the collaborator saved
\* them somewhere other than the requested path.
C11_Witness ==
    \E p \in Procs :
        /\ ToolOf(p) = "asset_labels"
        /\ HasReturned(p)
        /\ EnvelopeOf(p).success
        /\ Len(LabelIds(p)) = 2
        /\ LabelIds(p)[1] # LabelIds(p)[2]
        /\ EnvelopeOf(p).saved_to # ArgsIn(p).save_path

-----------------------------------------------------------------------------
\* A create invocation whose with block has run to its return or to a fault.
CreateRan(p) ==
    /\ ToolOf(p) \in {"manage_assets", "manage_consumables"}
    /\ ArgsIn(p).action = "create"
    /\ pc[p] = "exit"

CreateOp(p) ==
    IF ToolOf(p) = "manage_assets" THEN "assets.create" ELSE "consumables.create"

CreatePayload(p) ==
    IF ToolOf(p) = "manage_assets" THEN ArgsIn(p).asset_data
    ELSE ArgsIn(p).consumable_data

\* The create call made received exactly the fields supplied in the payload.
CreateForwardsSupplied(p) ==
    LET d == CreatePayload(p)[1]
        c == calls[p][1]
    IN  /\ Len(calls[p]) = 1
        /\ c.op = CreateOp(p)
        /\ c.pos = <<>>
        /\ DOMAIN c.kw = {k \in DOMAIN d : d[k] # None}
        /\ \A k \in DOMAIN c.kw : c.kw[k] = d[k]

\* The required subset holds a value create refuses: an id that is absent
\* or 0, a name that is absent or empty, a quantity that is absent.
CreateRefuses(p) ==
    LET d == CreatePayload(p)
        noId(o) == o = None \/ o = Some(0)
        noStr(o) == o = None \/ o = Some("")
    IN  \/ d = None
        \/ IF ToolOf(p) = "manage_assets"
           THEN noId(d[1].status_id) \/ noId(d[1].model_id)
           ELSE noStr(d[1].name) \/ d[1].qty = None \/ noId(d[1].category_id)

(* C12 as claimed.  A create of manage_assets or manage_consumables made   *)
(* no collaborator call exactly when the payload or a member of the        *)
(* required subset is absent; otherwise it made the create call with       *)
(* exactly the supplied fields.                                             *)
C12_RejectedIffAbsent ==
    \A p \in Procs :
        CreateRan(p) =>
            /\ calls[p] = <<>> <=> Omitted(inv[p]) # {}
            /\ Omitted(inv[p]) = {} => CreateForwardsSupplied(p)

(* C12, amended.  The create made no collaborator call, and returns a      *)
(* success=false envelope, exactly when the payload is absent or a member  *)
(* of the required subset is absent, an id of 0 or an empty name (a        *)
(* quantity of 0 is accepted); otherwise it made the create call with      *)
(* exactly the supplied fields.                                             *)
C12_RejectedIffAbsentOrEmpty ==
    \A p \in Procs :
        CreateRan(p) =>
            /\ calls[p] = <<>> <=> CreateRefuses(p)
            /\ CreateRefuses(p) =>
                   /\ retval[p] # None
                   /\ ~retval[p][1].success
                   /\ \E f \in RequiredFields(inv[p]) :
                          Names(retval[p][1].error, f)
            /\ ~CreateRefuses(p) => CreateForwardsSupplied(p)

\* An asset whose status_id is 0 was refused by create although every
\* required field was supplied.
C12_Witness ==
    \E p \in Procs :
        /\ CreateRan(p)
        /\ ToolOf(p) = "manage_assets"
        /\ Omitted(inv[p]) = {}
        /\ ArgsIn(p).asset_data[1].status_id = Some(0)
        /\ calls[p] = <<>>
        /\ retval[p] # None

-----------------------------------------------------------------------------
\* Everything an invocation slot holds.
SlotState(p) ==
    <<pc[p], inv[p], client[p], conn[p], calls[p], rets[p], resp[p], exc[p],
      retval[p], envelope[p]>>

\* The invocation i run on its own, from its with block on, against the
\* collaborator responses rs: the calls it makes (cs so far, r the values
\* returned) and the envelope it returns.
RECURSIVE AloneBody(_, _, _, _)
AloneBody(i, rs, cs, r) ==
    LET nx == Code(i.tool, i.args, r)
        call == [op |-> nx.op, pos |-> nx.pos, kw |-> nx.kw,
                 out |-> rs[1].out.cls]
    IN  IF nx.kind = "return" THEN
            [calls |-> cs,
             envelope |-> IF rs[1].out # Returned
                          THEN Catch(i.tool, rs[1].out) ELSE Some(nx.env)]
        ELSE IF rs[1].out = Returned THEN
            AloneBody(i, Tail(rs), Append(cs, call), Append(r, rs[1].val[1]))
        ELSE
            [calls |-> Append(cs, call),
             envelope |-> IF rs[2].out # Returned
                          THEN Catch(i.tool, rs[2].out)
                          ELSE Catch(i.tool, rs[1].out)]

\* The invocation i run on its own under configuration c.
Alone(i, c, rs) ==
    IF ~Configured(c) THEN
        [calls |-> <<>>, envelope |-> Catch(i.tool, ConfigFault)]
    ELSE IF rs[1].out # Returned THEN
        [calls |-> <<>>, envelope |-> Catch(i.tool, rs[1].out)]
    ELSE IF i.tool = "asset_labels" /\ LabelsRejected(i.args) THEN
        [calls |-> <<>>,
         envelope |-> Some(Err(<<"Either ", "asset_ids", " or ", "asset_tags",
                                 " must be provided">>))]
    ELSE IF rs[2].out # Returned THEN
        [calls |-> <<>>, envelope |-> Catch(i.tool, rs[2].out)]
    ELSE AloneBody(i, SubSeq(rs, 3, Len(rs)), <<>>, <<>>)

\* No SnipeIT object is referred to by two invocations.
NoSharedClient ==
    \A p, q \in Procs :
        (p # q /\ client[p] # None /\ client[q] # None) => client[p] # client[q]

\* An invocation that returned made the calls, and returned the envelope,
\* that it makes and returns on its own against the responses it received.
ReturnsAsAlone ==
    \A p \in Procs :
        HasReturned(p) =>
            LET alone == Alone(inv[p], cfg, resp[p])
            IN  /\ calls[p] = alone.calls
                /\ envelope[p] = alone.envelope

\* A step is one invocation's: it leaves what every other slot holds, and
\* the configuration, as they were.
StepOfOneSlot ==
    /\ cfg' = cfg
    /\ \E p \in Procs : \A q \in Procs \ {p} : SlotState(q)' = SlotState(q)

-----------------------------------------------------------------------------
\* The slot's invocation is an update that has made its patch call.
Patched(p) ==
    /\ ToolOf(p) \in {"manage_assets", "manage_consumables"}
    /\ ArgsIn(p).action = "update"
    /\ calls[p] # <<>>
    /\ calls[p][1].op \in {"assets.patch", "consumables.patch"}

-----------------------------------------------------------------------------
\* The slot's invocation is a checkout that returned success.
CheckedOut(p) ==
    /\ ToolOf(p) = "asset_operations"
    /\ ArgsIn(p).action = "checkout"
    /\ HasReturned(p)
    /\ EnvelopeOf(p).success

(* C15. A successful checkout invoked the checkout transition with         *)
(* checkout_to_type and assigned_to_id equal to the destination type and   *)
(* id supplied, and its message is "Asset checked out to <type> <id>" for  *)
(* the type and the id that were forwarded.                                *)
C15_CheckoutNamesDestination ==
    \A p \in Procs :
        CheckedOut(p) =>
            LET d == ArgsIn(p).checkout_data[1]
                c == calls[p][Len(calls[p])]
            IN  /\ c.op = "asset.checkout"
                /\ c.kw.checkout_to_type = Some(d.checkout_to_type)
                /\ c.kw.assigned_to_id = Some(d.assigned_to_id)
                /\ EnvelopeOf(p).action = "checkout"
                /\ EnvelopeOf(p).message =
                       <<"Asset checked out to ", c.kw.checkout_to_type[1], " ",
                         ToString(c.kw.assigned_to_id[1])>>

\* A checkout to location 1 returned success.
C15_Witness ==
    \E p \in Procs :
        /\ CheckedOut(p)
        /\ ArgsIn(p).checkout_data[1].checkout_to_type = "location"
        /\ ArgsIn(p).checkout_data[1].assigned_to_id = 1
        /\ EnvelopeOf(p).message = <<"Asset checked out to ", "location", " ", "1">>

-----------------------------------------------------------------------------
\* The category labels an error string may begin with.
AllCategoryLabels ==
    UNION {CategoryLabels(cls) : cls \in {"SnipeITNotFoundError",
                                          "SnipeITAuthenticationError",
                                          "SnipeITValidationError",
                                          "SnipeITException"}}
    \cup {"Unexpected error: "}

\* The slot's invocation returned a success=false envelope.
Failed(p) == HasReturned(p) /\ ~EnvelopeOf(p).success

(* C16 as claimed.  Every success=false envelope, those of local           *)
(* validation included, has an error that begins with a category label.    *)
C16_EveryErrorLabelled ==
    \A p \in Procs :
        Failed(p) => EnvelopeOf(p).error[1] \in AllCategoryLabels

(* C16, amended.  A success=false envelope begins with a category label    *)
(* exactly when it reports a caught fault; the envelope of a local         *)
(* validation failure is a bare message that names a required field and    *)
(* begins with no category label.                                          *)
C16_FaultErrorsLabelled ==
    \A p \in Procs :
        Failed(p) =>
            /\ exc[p] # None <=> EnvelopeOf(p).error[1] \in AllCategoryLabels
            /\ exc[p] = None =>
                   \E f \in RequiredFields(inv[p]) : Names(EnvelopeOf(p).error, f)

\* manage_assets(get) with no identifier returned its validation message,
\* which begins with no category label.
C16_Witness ==
    \E p \in Procs :
        /\ Failed(p)
        /\ ToolOf(p) = "manage_assets"
        /\ ArgsIn(p).action = "get"
        /\ exc[p] = None
        /\ EnvelopeOf(p).error[1] = "One of "

-----------------------------------------------------------------------------
\* The tools whose every action is a single collaborator operation.
SingleCallTools ==
    {"manage_assets", "manage_consumables", "asset_files", "asset_maintenance",
     "asset_licenses"}

(* C17. An invocation of manage_assets, manage_consumables, asset_files,   *)
(* asset_maintenance or asset_licenses has invoked at most one             *)
(* collaborator operation: exactly one, which returned, when it returns    *)
(* success, and none when it returns a local validation failure.  In every *)
(* tool an operation that faulted is the last one invoked.                 *)
C17_AtMostOneCallNoRetry ==
    \A p \in Procs :
        /\ \A i \in DOMAIN calls[p] : calls[p][i].out # "ok" => i = Len(calls[p])
        /\ ToolOf(p) \in SingleCallTools =>
               /\ Len(calls[p]) <= 1
               /\ (HasReturned(p) /\ EnvelopeOf(p).success) =>
                      Len(calls[p]) = 1 /\ calls[p][1].out = "ok"
               /\ (Failed(p) /\ exc[p] = None) => calls[p] = <<>>

\* An operation of a single-call tool faulted and the invocation has
\* returned the fault's envelope, having invoked nothing else.
C17_Witness ==
    \E p \in Procs :
        /\ ToolOf(p) = "asset_maintenance"
        /\ Failed(p)
        /\ Len(calls[p]) = 1
        /\ calls[p][1].out = "SnipeITException"
        /\ conn[p] = "exited"

-----------------------------------------------------------------------------
\* The operations that take an optional-field projection of a payload.
ProjectingOps ==
    {"asset.checkout", "asset.checkin", "asset.audit",
     "assets.create_maintenance"}

\* The payload such an operation projects, as an optional.
ProjectedData(p, op) ==
    CASE op = "asset.checkout" -> ArgsIn(p).checkout_data
      [] op = "asset.checkin"  -> ArgsIn(p).checkin_data
      [] op = "asset.audit"    -> ArgsIn(p).audit_data
      [] op = "assets.create_maintenance" -> Some(ArgsIn(p).maintenance_data)

\* The keywords the operation always receives.
MandatoryKw(p, op) ==
    CASE op = "asset.checkout" ->
            [checkout_to_type |-> Some(ArgsIn(p).checkout_data[1].checkout_to_type),
             assigned_to_id |-> Some(ArgsIn(p).checkout_data[1].assigned_to_id)]
      [] op = "assets.create_maintenance" ->
            [asset_id |-> Some(ArgsIn(p).asset_id),
             asset_improvement |->
                 Some(ArgsIn(p).maintenance_data.asset_improvement),
             supplier_id |-> Some(ArgsIn(p).maintenance_data.supplier_id),
             title |-> Some(ArgsIn(p).maintenance_data.title)]
      [] OTHER -> NoKw

OptionalStrings(op) ==
    CASE op = "asset.checkout" -> {"expected_checkin", "checkout_at", "note", "name"}
      [] op = "asset.checkin"  -> {"note"}
      [] op = "asset.audit"    -> {"note", "next_audit_date"}
      [] op = "assets.create_maintenance" ->
            {"start_date", "completion_date", "notes"}

OptionalNumbers(op) ==
    CASE op = "asset.checkout" -> {}
      [] op = "asset.checkin"  -> {"location_id"}
      [] op = "asset.audit"    -> {"location_id"}
      [] op = "assets.create_maintenance" -> {"cost"}

\* The optional fields of the payload that were supplied.
SuppliedOptions(od, op) ==
    IF od = None THEN {}
    ELSE {k \in OptionalStrings(op) \cup OptionalNumbers(op) : od[1][k] # None}

\* The optional fields supplied with a value other than "" and, cost
\* apart, other than 0.
NonEmptyOptions(od, op) ==
    IF od = None THEN {}
    ELSE {k \in OptionalStrings(op) : od[1][k] # None /\ od[1][k] # Some("")}
         \cup {k \in OptionalNumbers(op) :
                  /\ od[1][k] # None
                  /\ (k = "cost" \/ od[1][k] # Some(0))}

\* Call c of slot p received the mandatory keywords and the optional
\* fields `options`, each with the value supplied.
ForwardsExactly(p, c, options) ==
    LET mandatory == MandatoryKw(p, c.op)
    IN  /\ DOMAIN c.kw = DOMAIN mandatory \cup options
        /\ \A k \in DOMAIN c.kw :
               c.kw[k] = IF k \in DOMAIN mandatory THEN mandatory[k]
                         ELSE ProjectedData(p, c.op)[1][k]

(* C18 as claimed.  Every checkout, checkin, audit and maintenance-create  *)
(* call received the mandatory keywords and exactly the optional fields    *)
(* that were supplied, a field supplied as 0 or "" included.               *)
C18_ForwardsSupplied ==
    \A p \in Procs :
        \A i \in DOMAIN calls[p] :
            calls[p][i].op \in ProjectingOps =>
                ForwardsExactly(p, calls[p][i],
                    SuppliedOptions(ProjectedData(p, calls[p][i].op),
                                    calls[p][i].op))

(* C18, amended.  Every checkout, checkin, audit and maintenance-create    *)
(* call received the mandatory keywords and exactly the optional fields    *)
(* supplied with a non-empty value: an optional string supplied as "" and  *)
(* a location_id supplied as 0 are left out like absent ones, while cost   *)
(* is forwarded whenever it is supplied, 0 included.                       *)
C18_ForwardsNonEmpty ==
    \A p \in Procs :
        \A i \in DOMAIN calls[p] :
            calls[p][i].op \in ProjectingOps =>
                ForwardsExactly(p, calls[p][i],
                    NonEmptyOptions(ProjectedData(p, calls[p][i].op),
                                    calls[p][i].op))

\* A maintenance record was created from a payload with cost 0 and an empty
\* start_date: cost was forwarded and start_date was not.
C18_Witness ==
    \E p \in Procs :
        /\ ToolOf(p) = "asset_maintenance"
        /\ calls[p] # <<>>
        /\ calls[p][1].op = "assets.create_maintenance"
        /\ ArgsIn(p).maintenance_data.cost = Some(0)
        /\ ArgsIn(p).maintenance_data.start_date = Some("")
        /\ "cost" \in DOMAIN calls[p][1].kw
        /\ "start_date" \notin DOMAIN calls[p][1].kw

-----------------------------------------------------------------------------
\* The slot's invocation has been called and has not returned.
Running(p) == pc[p] \in {"construct", "enter", "body", "exit"}

\* A step keeps a running invocation running or returns from it; it sets
\* the envelope when, and only when, it returns; and once the invocation
\* has returned it changes neither the envelope nor the calls made, until
\* the caller drops the result.
ReturnsOnce(p) ==
    /\ Running(p) => (Running(p)' \/ pc'[p] = "done")
    /\ (Running(p) /\ Running(p)') => envelope'[p] = None
    /\ (Running(p) /\ pc'[p] = "done") => envelope'[p] # None
    /\ pc[p] = "done" =>
           \/ pc'[p] = "done" /\ envelope'[p] = envelope[p]
                              /\ calls'[p] = calls[p]
           \/ pc'[p] = "idle"

(* C19. Every invocation returns exactly one envelope, exactly once: an    *)
(* envelope is held exactly by the invocations that have returned, a       *)
(* running invocation eventually returns (given that every collaborator    *)
(* interaction it waits for returns or faults), the return comes after its *)
(* last collaborator call, and nothing is called for it afterwards.        *)
C19_ReturnsOneEnvelopeEventually ==
    /\ [](\A p \in Procs : envelope[p] # None <=> pc[p] = "done")
    /\ [][\A p \in Procs : ReturnsOnce(p)]_vars
    /\ \A p \in Procs : Running(p) ~> pc[p] = "done"

\* asset_labels has returned success after three collaborator calls, each
\* of which had returned.
C19_Witness ==
    \E p \in Procs :
        /\ ToolOf(p) = "asset_labels"
        /\ HasReturned(p)
        /\ EnvelopeOf(p).success
        /\ Len(calls[p]) = 3
        /\ \A i \in 1..3 : calls[p][i].out = "ok"

-----------------------------------------------------------------------------
\* Constructing, entering and leaving the slot's client all returned: of the
\* responses received, only those of collaborator operations may be faults.
ConnectionFaultless(p) ==
    \A i \in DOMAIN resp[p] :
        (i <= 2 \/ i = Len(resp[p])) => resp[p][i].out = Returned

(* C20. Client construction comes before local validation in every tool.  *)
(* With the configuration missing, every invocation, one that omits a      *)
(* required field included, returns the same "Snipe-IT error: "            *)
(* configuration envelope and has called nothing.  With the configuration  *)
(* present and the connection itself faultless, an invocation that omits   *)
(* a required field returns its validation error, naming a required        *)
(* field, whatever the collaborator answers.  The code contradicts the     *)
(* last part: asset_operations looks the asset up before it tests          *)
(* checkout_data, so a lookup that faults decides the error (see C1).      *)
C20_ValidationErrorFromInputsOnly ==
    \A p \in Procs :
        HasReturned(p) =>
            /\ ~Configured(cfg) =>
                   /\ EnvelopeOf(p) = Err(<<"Snipe-IT error: ", ConfigFault.msg>>)
                   /\ calls[p] = <<>>
            /\ (/\ Configured(cfg)
                /\ Omitted(inv[p]) # {}
                /\ ConnectionFaultless(p))
               => /\ ~EnvelopeOf(p).success
                  /\ exc[p] = None
                  /\ \E f \in RequiredFields(inv[p]) :
                         Names(EnvelopeOf(p).error, f)

=============================================================================
